---- MODULE Spec2Model ----
(***************************************************************************)
(* Model of src/main.py: the two FastAPI handlers upload_document (/upload) *)
(* and chat_with_bot (/chat), the temporary files of the ingestion flow,    *)
(* the PGVector store and the Postgres chat-history store they share.       *)
(*                                                                          *)
(* Strings the code inspects (session ids, file names) are sequences of     *)
(* one-character strings, so that str.endswith, uuid.UUID and str(UUID)     *)
(* are computed character by character.                                     *)
(***************************************************************************)
EXTENDS Integers, Sequences, FiniteSets, TLC

VARIABLES
    reqs,           \* the requests received so far, each with its handler's locals
                    \* (context: the rows retrieved; excluded: how many rows of
                    \* the store the retriever's filter kept out)
    disk,           \* temp files on disk: a set of [path, content]
    vector_store,   \* rows of the PGVector collection "residency_docs"
    chat_store,     \* rows of table "chat_history", in the order of insertion
    uuid_keys_only  \* whether the history store rejects keys that are no UUID

vars == <<reqs, disk, vector_store, chat_store, uuid_keys_only>>

----------------------------------------------------------------------------
(* Bounds of the model *)

MaxReq == 2

(* Inputs *)

SidAbc == <<"a", "b", "c">>
SidLower == <<"1", "2", "3", "e", "4", "5", "6", "7", "-", "e", "8", "9", "b", "-", "1", "2", "d", "3", "-", "a", "4", "5", "6", "-", "4", "2", "6", "6", "1", "4", "1", "7", "4", "0", "0", "0">>
SidUpper == <<"1", "2", "3", "E", "4", "5", "6", "7", "-", "E", "8", "9", "B", "-", "1", "2", "D", "3", "-", "A", "4", "5", "6", "-", "4", "2", "6", "6", "1", "4", "1", "7", "4", "0", "0", "0">>

SessionIds == {SidAbc, SidLower, SidUpper}

FilePdf == <<"a", ".", "p", "d", "f">>
FilePdfTxt == <<"a", ".", "p", "d", "f", ".", "t", "x", "t">>

Filenames == {FilePdf, FilePdfTxt}

\* An uploaded body: the page texts of the PDF.
Bodies == { <<"t1", "t2">> }

Queries == {"q1"}

Answers == {"a1"}

NoPath == <<>>
NoBody == <<>>

----------------------------------------------------------------------------
(* Strings *)

StartsWith(s, pre) ==
    Len(s) >= Len(pre) /\ SubSeq(s, 1, Len(pre)) = pre

\* The check `'.pdf' in filename` in place of filename.endswith('.pdf').
RECURSIVE ContainsSubstring(_, _)
ContainsSubstring(s, suf) ==
    IF Len(s) < Len(suf) THEN FALSE
    ELSE StartsWith(s, suf) \/ ContainsSubstring(Tail(s), suf)

\* str.endswith
EndsWith(s, suf) ==
    Len(s) >= Len(suf) /\ SubSeq(s, Len(s) - Len(suf) + 1, Len(s)) = suf

\* str.replace(pat, '')
RECURSIVE RemoveAll(_, _)
RemoveAll(s, pat) ==
    IF s = <<>> THEN <<>>
    ELSE IF StartsWith(s, pat) THEN RemoveAll(SubSeq(s, Len(pat) + 1, Len(s)), pat)
    ELSE <<Head(s)>> \o RemoveAll(Tail(s), pat)

RECURSIVE LStrip(_, _)
LStrip(s, cs) ==
    IF s # <<>> /\ Head(s) \in cs THEN LStrip(Tail(s), cs) ELSE s

RECURSIVE RStrip(_, _)
RStrip(s, cs) ==
    IF s # <<>> /\ s[Len(s)] \in cs THEN RStrip(SubSeq(s, 1, Len(s) - 1), cs) ELSE s

\* str.strip(chars)
Strip(s, cs) == RStrip(LStrip(s, cs), cs)

LowerHexDigits ==
    {"0", "1", "2", "3", "4", "5", "6", "7", "8", "9", "a", "b", "c", "d", "e", "f"}

UpperHexDigits == {"A", "B", "C", "D", "E", "F"}

Lower(c) ==
    CASE c = "A" -> "a"
      [] c = "B" -> "b"
      [] c = "C" -> "c"
      [] c = "D" -> "d"
      [] c = "E" -> "e"
      [] c = "F" -> "f"
      [] OTHER -> c

----------------------------------------------------------------------------
(* uuid.UUID(s), str(UUID) and uuid.uuid5 *)

\* The digits uuid.UUID reads from its argument: 'urn:' and 'uuid:' removed,
\* braces stripped, hyphens removed.
UUIDHex(s) ==
    RemoveAll(
        Strip(RemoveAll(RemoveAll(s, <<"u", "r", "n", ":">>), <<"u", "u", "i", "d", ":">>),
              {"{", "}"}),
        <<"-">>)

\* uuid.UUID(s) raises ValueError unless 32 hexadecimal digits remain.
ParsesAsUUID(s) ==
    LET hex == UUIDHex(s) IN
    /\ Len(hex) = 32
    /\ \A i \in 1..32 : hex[i] \in LowerHexDigits \cup UpperHexDigits

\* The value of uuid.UUID(s): its 128 bits as 32 hexadecimal digits.
UUIDValue(s) == LET hex == UUIDHex(s) IN [i \in 1..32 |-> Lower(hex[i])]

\* str(UUID): lower-case digits in groups of 8-4-4-4-12.
StrUUID(h) ==
    SubSeq(h, 1, 8) \o <<"-">> \o SubSeq(h, 9, 12) \o <<"-">> \o SubSeq(h, 13, 16)
        \o <<"-">> \o SubSeq(h, 17, 20) \o <<"-">> \o SubSeq(h, 21, 32)

NAMESPACE_DNS == <<"6", "b", "a", "7", "b", "8", "1", "0", "-", "9", "d", "a", "d", "-", "1", "1", "d", "1", "-", "8", "0", "b", "4", "-", "0", "0", "c", "0", "4", "f", "d", "4", "3", "0", "c", "8">>

\* str(uuid.uuid5(ns, name)): the SHA-1 based version-5 UUID, tabulated over
\* the names the model's inputs hold.
StrUUID5(ns, name) ==
    CASE ns = NAMESPACE_DNS /\ name = SidAbc ->
        <<"6", "c", "b", "8", "e", "7", "0", "7", "-", "0", "f", "c", "5", "-", "5", "f", "5", "5", "-", "8", "8", "d", "4", "-", "d", "4", "f", "e", "d", "4", "3", "e", "6", "4", "a", "8">>

\* valid_uuid = session_id in place of str(uuid.UUID(session_id)).
ResolveVerbatim(session_id) ==
    IF ParsesAsUUID(session_id)
    THEN session_id
    ELSE StrUUID5(NAMESPACE_DNS, session_id)

\* Lines 82-85: valid_uuid.
ResolveCanonical(session_id) ==
    IF ParsesAsUUID(session_id)
    THEN StrUUID(UUIDValue(session_id))
    ELSE StrUUID5(NAMESPACE_DNS, session_id)

----------------------------------------------------------------------------
(* Requests *)

NewUpload(session_id, filename, body) ==
    [kind |-> "upload", session_id |-> session_id, filename |-> filename,
     body |-> body, query |-> "", pc |-> "start", status |-> 0, detail |-> "",
     temp_path |-> NoPath, splits |-> <<>>, valid_uuid |-> <<>>,
     history_key |-> <<>>, chat_history |-> <<>>,
     context |-> {}, excluded |-> 0, answer |-> ""]

NewChat(session_id, query) ==
    [kind |-> "chat", session_id |-> session_id, filename |-> <<>>,
     body |-> NoBody, query |-> query, pc |-> "start", status |-> 0, detail |-> "",
     temp_path |-> NoPath, splits |-> <<>>, valid_uuid |-> <<>>,
     history_key |-> <<>>, chat_history |-> <<>>,
     context |-> {}, excluded |-> 0, answer |-> ""]

Rs == 1..Len(reqs)

\* raise HTTPException(status_code=500, detail=str(e))
Raise500(q, e) == [q EXCEPT !.status = 500, !.detail = e]

Init ==
    /\ reqs = <<>>
    /\ disk = {}
    /\ vector_store = {}
    /\ chat_store = <<>>
    /\ uuid_keys_only \in BOOLEAN

----------------------------------------------------------------------------
(* The file system *)

\* os.path.exists
Exists(path) == \E f \in disk : f.path = path

Content(path) == (CHOOSE f \in disk : f.path = path).content

\* open(path, "wb") followed by f.write(content)
WriteFile(path, content) ==
    {f \in disk : f.path # path} \cup {[path |-> path, content |-> content]}

\* os.remove
Remove(path) == {f \in disk : f.path # path}

\* f"temp_{uuid.uuid4()}.pdf": a name no other request has drawn.
TempPath(r) == <<"temp", r>>

----------------------------------------------------------------------------
(* POST /upload, lines 35-66 *)

\* Lines 36-44: the request arrives; the file-name check, the temp file's
\* name, then open() creates the file and file.read() / f.write() fill it.
PostUpload(session_id, filename, body) ==
    /\ Len(reqs) < MaxReq
    /\ LET r == Len(reqs) + 1
           q == NewUpload(session_id, filename, body)
       IN  IF ~EndsWith(filename, <<".", "p", "d", "f">>)
           THEN /\ reqs' = Append(reqs, [q EXCEPT !.status = 400,
                                    !.detail = "Only PDF files are supported.",
                                    !.pc = "done"])
                /\ disk' = disk
           ELSE \/ /\ disk' = WriteFile(TempPath(r), body)
                   /\ reqs' = Append(reqs, [q EXCEPT !.temp_path = TempPath(r),
                                                     !.pc = "index"])
                \/ \* open() raises: no file was created
                   /\ disk' = disk
                   /\ reqs' = Append(reqs, [Raise500(q, "open") EXCEPT
                                    !.temp_path = TempPath(r), !.pc = "finally"])
                \/ \* read() or write() raises after open() created the file
                   /\ disk' = WriteFile(TempPath(r), NoBody)
                   /\ reqs' = Append(reqs, [Raise500(q, "write") EXCEPT
                                    !.temp_path = TempPath(r), !.pc = "finally"])
    /\ UNCHANGED <<vector_store, chat_store, uuid_keys_only>>

\* PyPDFLoader(temp_path).load(): one document per page of the file on disk.
LoadPdf(path) ==
    [i \in 1..Len(Content(path)) |->
        [page_content |-> Content(path)[i],
         metadata |-> [source |-> path, page |-> i - 1]]]

\* RecursiveCharacterTextSplitter.split_documents: a page text no longer than
\* chunk_size is one chunk, with its document's metadata.
SplitDocuments(docs) == docs

\* The loop body left out: the split keeps the loader's metadata.
StampNothing(split, session_id) == split

\* Line 55: split.metadata["session_id"] = session_id
Stamp(split, session_id) ==
    [split EXCEPT !.metadata =
        [k \in DOMAIN split.metadata \cup {"session_id"} |->
            IF k = "session_id" THEN session_id ELSE split.metadata[k]]]

\* Lines 54-55: the loop over splits.
StampAll(splits, session_id) ==
    [i \in DOMAIN splits |-> Stamp(splits[i], session_id)]

\* vector_store.add_documents(splits): one row per document; `by` and `n`
\* identify the row (the request that added it and its place in the batch).
Rows(r, splits) ==
    {[by |-> r, n |-> i, page_content |-> splits[i].page_content,
      metadata |-> splits[i].metadata] : i \in DOMAIN splits}

\* Lines 46-60: load, split, stamp, one batch insertion, the success response.
U_Index(r) ==
    /\ reqs[r].kind = "upload" /\ reqs[r].pc = "index"
    /\ Exists(reqs[r].temp_path)
    /\ LET splits == StampAll(SplitDocuments(LoadPdf(reqs[r].temp_path)),
                              reqs[r].session_id)
       IN  \/ /\ vector_store' = vector_store \cup Rows(r, splits)
              /\ reqs' = [reqs EXCEPT ![r].splits = splits,
                                      ![r].status = 200,
                                      ![r].detail = "Success",
                                      ![r].pc = "finally"]
           \/ \* loader.load() raises
              /\ vector_store' = vector_store
              /\ reqs' = [reqs EXCEPT ![r] = [Raise500(@, "load") EXCEPT !.pc = "finally"]]
           \/ \* add_documents raises
              /\ vector_store' = vector_store
              /\ reqs' = [reqs EXCEPT ![r] = [Raise500(@, "add_documents") EXCEPT
                                      !.splits = splits, !.pc = "finally"]]
    /\ UNCHANGED <<disk, chat_store, uuid_keys_only>>

\* The removal placed at the end of the try block in place of the finally block.
FinallyDiskOnSuccess(r) ==
    IF reqs[r].status = 200 /\ Exists(reqs[r].temp_path)
    THEN Remove(reqs[r].temp_path)
    ELSE disk

\* Lines 64-66: if os.path.exists(temp_path): os.remove(temp_path)
FinallyDisk(r) ==
    IF Exists(reqs[r].temp_path) THEN Remove(reqs[r].temp_path) ELSE disk

U_Finally(r) ==
    /\ reqs[r].kind = "upload" /\ reqs[r].pc = "finally"
    /\ disk' = FinallyDisk(r)
    /\ reqs' = [reqs EXCEPT ![r].pc = "done"]
    /\ UNCHANGED <<vector_store, chat_store, uuid_keys_only>>

----------------------------------------------------------------------------
(* POST /chat, lines 69-139 *)

\* PostgresChatMessageHistory(table, session_id, sync_connection=...): the
\* constructor raises ValueError for a session_id that is no UUID when the
\* store requires UUID keys.
AcceptsKey(key) == ~uuid_keys_only \/ ParsesAsUUID(key)

\* One history object built at module load, like vector_store, and shared by
\* every request.
HistoryKeyShared(q) == SidLower

\* Line 124: the session key of the history object the request goes on to use.
HistorySessionKey(q) == q.session_id

\* Line 98: search_kwargs={'filter': {'session_id': session_id}}
RetrieverFilter(q) == q.session_id

\* Lines 70-126: the request arrives; connection, table creation (a failure is
\* swallowed), valid_uuid, the first history object, the chains, the second
\* connection and the second history object.
PostChat(session_id, query) ==
    /\ Len(reqs) < MaxReq
    /\ LET q == [NewChat(session_id, query) EXCEPT
                    !.valid_uuid = ResolveCanonical(session_id)]
       IN  \/ reqs' = Append(reqs,
                  IF AcceptsKey(q.valid_uuid) /\ AcceptsKey(HistorySessionKey(q))
                  THEN [q EXCEPT !.history_key = HistorySessionKey(q), !.pc = "invoke"]
                  ELSE [Raise500(q, "ValueError") EXCEPT !.pc = "done"])
           \/ \* psycopg.connect raises at line 74, before valid_uuid is resolved
              reqs' = Append(reqs, [[Raise500(q, "connect") EXCEPT !.pc = "done"]
                                        EXCEPT !.valid_uuid = <<>>])
           \/ \* psycopg.connect raises at line 121
              reqs' = Append(reqs, [Raise500(q, "connect") EXCEPT !.pc = "done"])
    /\ UNCHANGED <<disk, vector_store, chat_store, uuid_keys_only>>

\* history.messages: the messages of the rows stored under the history
\* object's session key, oldest first.
Messages(key) ==
    LET rows == SelectSeq(chat_store, LAMBDA row : row.session_id = key)
    IN  [i \in DOMAIN rows |-> rows[i].message]

\* history.add_messages: one row more, under the history object's session key.
AddMessage(key, message) ==
    Append(chat_store, [session_id |-> key, message |-> message])

\* A retriever built without search_kwargs.
MatchesAnything(row, filter) == TRUE

\* An exact match on the row's metadata.
Matches(row, filter) ==
    "session_id" \in DOMAIN row.metadata /\ row.metadata.session_id = filter

Min(a, b) == IF a < b THEN a ELSE b

\* The retriever's default search: the k nearest rows among those the filter admits.
TopK == 4

Admitted(filter) == {row \in vector_store : Matches(row, filter)}

Retrievals(filter) ==
    {c \in SUBSET Admitted(filter) :
        Cardinality(c) = Min(TopK, Cardinality(Admitted(filter)))}

\* Line 129: rag_chain.invoke({"input": query, "chat_history": history.messages})
C_Invoke(r) ==
    /\ reqs[r].kind = "chat" /\ reqs[r].pc = "invoke"
    /\ \/ \E c \in Retrievals(RetrieverFilter(reqs[r])), a \in Answers :
              reqs' = [reqs EXCEPT
                  ![r].chat_history = Messages(reqs[r].history_key),
                  ![r].context = c,
                  ![r].excluded =
                      Cardinality(vector_store \ Admitted(RetrieverFilter(reqs[r]))),
                  ![r].answer = a,
                  ![r].pc = "add_user"]
       \/ \E e \in {"llm", "vector_store"} :
              reqs' = [reqs EXCEPT ![r] = [Raise500(@, e) EXCEPT !.pc = "done"]]
    /\ UNCHANGED <<disk, vector_store, chat_store, uuid_keys_only>>

\* A stored message; `req` identifies the row by the request that wrote it.
HumanMessage(r, content) == [type |-> "human", content |-> content, req |-> r]

AIMessage(r, content) == [type |-> "ai", content |-> content, req |-> r]

\* Line 132: history.add_user_message(query)
C_AddUser(r) ==
    /\ reqs[r].kind = "chat" /\ reqs[r].pc = "add_user"
    /\ \/ /\ chat_store' = AddMessage(reqs[r].history_key,
                                      HumanMessage(r, reqs[r].query))
          /\ reqs' = [reqs EXCEPT ![r].pc = "add_ai"]
       \/ /\ chat_store' = chat_store
          /\ reqs' = [reqs EXCEPT ![r] = [Raise500(@, "add_user_message") EXCEPT !.pc = "done"]]
    /\ UNCHANGED <<disk, vector_store, uuid_keys_only>>

\* Lines 133-135: history.add_ai_message(result["answer"]), then the response.
C_AddAI(r) ==
    /\ reqs[r].kind = "chat" /\ reqs[r].pc = "add_ai"
    /\ \/ /\ chat_store' = AddMessage(reqs[r].history_key,
                                      AIMessage(r, reqs[r].answer))
          /\ reqs' = [reqs EXCEPT ![r].status = 200, ![r].detail = reqs[r].answer,
                                  ![r].pc = "done"]
       \/ /\ chat_store' = chat_store
          /\ reqs' = [reqs EXCEPT ![r] = [Raise500(@, "add_ai_message") EXCEPT !.pc = "done"]]
    /\ UNCHANGED <<disk, vector_store, uuid_keys_only>>

----------------------------------------------------------------------------

Next ==
    \/ \E s \in SessionIds, f \in Filenames, b \in Bodies : PostUpload(s, f, b)
    \/ \E s \in SessionIds, q \in Queries : PostChat(s, q)
    \/ \E r \in Rs : U_Index(r)
    \/ \E r \in Rs : U_Finally(r)
    \/ \E r \in Rs : C_Invoke(r)
    \/ \E r \in Rs : C_AddUser(r)
    \/ \E r \in Rs : C_AddAI(r)

Spec == Init /\ [][Next]_vars

----------------------------------------------------------------------------
(* Properties *)

Uploads == {r \in Rs : reqs[r].kind = "upload"}

Chats == {r \in Rs : reqs[r].kind = "chat"}

\* The chat requests whose chain has run (line 129 returned).
Invoked == {r \in Chats : reqs[r].answer # ""}

\* The session keys that have rows in the history store.
StoredKeys == {chat_store[i].session_id : i \in DOMAIN chat_store}

\* The rows request r wrote to the history store.
Written(r) == {i \in DOMAIN chat_store : chat_store[i].message.req = r}

\* A file name whose last four characters are ".pdf".
HasPdfSuffix(f) ==
    /\ Len(f) >= 4
    /\ f[Len(f) - 3] = "." /\ f[Len(f) - 2] = "p"
    /\ f[Len(f) - 1] = "d" /\ f[Len(f)] = "f"

\* A step in which a new request arrives.
Arrival == Len(reqs') = Len(reqs) + 1

\* C1: every chunk handed to the retrieval step of a /chat request was
\* inserted by an /upload request of the same session_id.
C1_DocumentIsolation ==
    \A r \in Chats : \A row \in reqs[r].context :
        reqs[row.by].session_id = reqs[r].session_id

\* A chat answered after a retrieval whose filter kept out rows of the store.
C1_Witness ==
    \E r \in Chats :
        reqs[r].pc = "done" /\ reqs[r].status = 200 /\ reqs[r].excluded > 0

\* The two parts of history isolation: what every state shows, and what
\* every step does.
C2_StateIsolation ==
    /\ \A r \in Chats : \A i \in DOMAIN reqs[r].chat_history :
          reqs[reqs[r].chat_history[i].req].session_id = reqs[r].session_id
    /\ \A i, j \in DOMAIN chat_store :
          chat_store[i].session_id = chat_store[j].session_id =>
              reqs[chat_store[i].message.req].session_id
                  = reqs[chat_store[j].message.req].session_id

C2_StepIsolation ==
    chat_store' # chat_store =>
        \E r \in Chats :
            /\ reqs'[r] # reqs[r]
            /\ Len(chat_store') = Len(chat_store) + 1
            /\ SubSeq(chat_store', 1, Len(chat_store)) = chat_store
            /\ chat_store'[Len(chat_store')].message.req = r
            /\ \A i \in DOMAIN chat_store :
                  chat_store[i].session_id = chat_store'[Len(chat_store')].session_id
                      => reqs[chat_store[i].message.req].session_id = reqs[r].session_id

\* C2: the prior messages a /chat request passes to the chain were all
\* written by requests of its own session_id, no stored history mixes the
\* messages of two session ids, and a step changes the history store only by
\* one request appending one message of its own to a history of its own
\* session, leaving every stored row as it was.
C2_HistoryIsolation == []C2_StateIsolation /\ [][C2_StepIsolation]_vars

\* Two answered chats of different sessions, each with its own stored history.
C2_Witness ==
    \E r1, r2 \in Chats :
        /\ reqs[r1].session_id # reqs[r2].session_id
        /\ reqs[r1].status = 200 /\ reqs[r2].status = 200

\* The two parts of the rejection of a file name: the rejected request, and
\* the step that rejects it.
C3_StateRejected ==
    \A r \in Uploads :
        ~HasPdfSuffix(reqs[r].filename) =>
            /\ reqs[r].status = 400 /\ reqs[r].pc = "done"
            /\ reqs[r].temp_path = NoPath

C3_StepRejected ==
    (Arrival /\ reqs'[Len(reqs')].kind = "upload"
             /\ ~HasPdfSuffix(reqs'[Len(reqs')].filename)) =>
        /\ reqs'[Len(reqs')].status = 400
        /\ vector_store' = vector_store
        /\ chat_store' = chat_store
        /\ disk' = disk

\* C3: an /upload whose filename does not end in ".pdf" ends with 400 in the
\* step that receives it, with no temp file name drawn, and the vector store,
\* the chat history store and the disk are the same after that step.
C3_NonPdfRejected == []C3_StateRejected /\ [][C3_StepRejected]_vars

\* A rejected upload received while another upload's file is on disk.
C3_Witness ==
    \E r \in Uploads :
        /\ reqs[r].filename = FilePdfTxt /\ reqs[r].status = 400
        /\ r > 1 /\ disk # {}

\* C4: once an /upload request has completed, no file with its temp name is
\* on disk, and two requests never share a temp name.
C4_TempFileGone ==
    /\ \A r \in Uploads :
          reqs[r].pc = "done" => \A f \in disk : f.path # reqs[r].temp_path
    /\ \A r1, r2 \in Uploads :
          (r1 # r2 /\ reqs[r1].temp_path # NoPath) =>
              reqs[r1].temp_path # reqs[r2].temp_path

\* An upload completed with 500 after its file was created, while another
\* upload's file is on disk.
C4_Witness ==
    \E r1, r2 \in Uploads :
        /\ reqs[r1].pc = "done" /\ reqs[r1].status = 500 /\ reqs[r1].detail = "write"
        /\ reqs[r2].pc = "index" /\ \E f \in disk : f.path = reqs[r2].temp_path

\* C5: the history a /chat request loads from and appends to is the one
\* stored under the canonical UUID resolved from session_id.
C5_HistoryUnderCanonicalId ==
    /\ \A r \in Invoked : reqs[r].history_key = reqs[r].valid_uuid
    /\ \A i \in DOMAIN chat_store :
          chat_store[i].session_id = reqs[chat_store[i].message.req].valid_uuid

\* The resolved ids of the chat requests that reached lines 82-85.
Resolved == {r \in Chats : reqs[r].valid_uuid # <<>>}

IsCanonicalForm(u) ==
    /\ Len(u) = 36
    /\ \A i \in 1..36 :
          IF i \in {9, 14, 19, 24} THEN u[i] = "-" ELSE u[i] \in LowerHexDigits

LowerAll(digits) == [i \in DOMAIN digits |-> Lower(digits[i])]

\* C6 as stated: a session_id that parses as a UUID is the canonical id
\* verbatim, any other resolves to the version-5 UUID of the DNS namespace
\* and the raw string, and equal session ids resolve to equal canonical ids.
C6_VerbatimOrDerived ==
    /\ \A r \in Resolved :
          IF ParsesAsUUID(reqs[r].session_id)
          THEN reqs[r].valid_uuid = reqs[r].session_id
          ELSE reqs[r].valid_uuid = StrUUID5(NAMESPACE_DNS, reqs[r].session_id)
    /\ \A r1, r2 \in Resolved :
          reqs[r1].session_id = reqs[r2].session_id =>
              reqs[r1].valid_uuid = reqs[r2].valid_uuid

\* What lines 82-85 make of session_id sid: v, the resolved valid_uuid.
WellResolved(sid, v) ==
    /\ IsCanonicalForm(v)
    /\ IF ParsesAsUUID(sid)
       THEN /\ RemoveAll(v, <<"-">>) = LowerAll(UUIDHex(sid))
            /\ (IsCanonicalForm(sid) => v = sid)
       ELSE v = StrUUID5(NAMESPACE_DNS, sid)
    /\ \A r \in Resolved : reqs[r].session_id = sid => reqs[r].valid_uuid = v

\* The step that resolves a chat request's valid_uuid resolves it well, and
\* no other step changes a resolved id.
C6_StepResolves ==
    /\ (Arrival /\ reqs'[Len(reqs')].kind = "chat"
                /\ reqs'[Len(reqs')].valid_uuid # <<>>) =>
          WellResolved(reqs'[Len(reqs')].session_id, reqs'[Len(reqs')].valid_uuid)
    /\ \A r \in Rs : reqs'[r].valid_uuid = reqs[r].valid_uuid

\* C6 amended: a session_id that parses as a UUID resolves to that UUID in
\* lower-case 8-4-4-4-12 form (the string itself only when it is already in
\* that form), any other resolves to the version-5 UUID of the DNS namespace
\* and the raw string, and equal session ids resolve to equal canonical ids
\* whatever the stores hold and whatever requests came before.
C6_NormalisedOrDerived == [][C6_StepResolves]_vars

\* Two answered chats of one non-UUID session id, the second resolved after
\* the first was received.
C6_Witness ==
    \E r1, r2 \in Resolved :
        /\ r1 < r2 /\ reqs[r1].session_id = SidAbc /\ reqs[r2].session_id = SidAbc
        /\ reqs[r1].status = 200 /\ reqs[r2].status = 200

\* A request that ended without any collaborator (database connection,
\* language model, vector store, history write) raising.
NoCollaboratorFailed(r) ==
    reqs[r].detail \notin
        {"connect", "llm", "vector_store", "add_user_message", "add_ai_message"}

\* History h holds exactly two messages of request r, next to each other:
\* its query as a user message, then its answer as an assistant message.
AppendedOnce(h, r) ==
    \E i \in DOMAIN h :
        /\ i < Len(h)
        /\ {j \in DOMAIN h : h[j].req = r} = {i, i + 1}
        /\ h[i] = [type |-> "human", content |-> reqs[r].query, req |-> r]
        /\ h[i + 1] = [type |-> "ai", content |-> reqs[r].answer, req |-> r]

\* C7: a completed /chat request in which no collaborator failed returned
\* its answer with 200, and its session's history holds exactly one user
\* message with the original query, followed by exactly one assistant
\* message with the returned answer.
C7_ChatAnswersAndAppends ==
    \A r \in Chats :
        (reqs[r].pc = "done" /\ NoCollaboratorFailed(r)) =>
            /\ reqs[r].status = 200
            /\ reqs[r].detail = reqs[r].answer
            /\ AppendedOnce(Messages(reqs[r].history_key), r)
            /\ \A i \in Written(r) : chat_store[i].session_id = reqs[r].history_key

\* C8: a /chat request that ended with 500 returned no answer and left no
\* message of its own in any stored history.
C8_FailureLeavesHistory ==
    \A r \in Chats :
        reqs[r].status = 500 =>
            /\ reqs[r].detail # reqs[r].answer
            /\ Written(r) = {}

\* The two parts of chunk tagging: the rows of every state, and what a step
\* does to them.
C9_StateTagged ==
    /\ \A row \in vector_store :
          /\ row.by \in Uploads
          /\ "session_id" \in DOMAIN row.metadata
          /\ row.metadata.session_id = reqs[row.by].session_id
    /\ \A r \in Uploads :
          LET rows == {row \in vector_store : row.by = r} IN
          /\ rows # {} =>
                /\ reqs[r].status = 200
                /\ Cardinality(rows) = Len(reqs[r].splits)
                /\ \A row \in rows : row.metadata = reqs[r].splits[row.n].metadata
          /\ reqs[r].detail = "add_documents" =>
                reqs[r].status = 500 /\ rows = {}

C9_StepKeepsRows == vector_store \subseteq vector_store'

\* C9: every row of the vector store carries a session_id, that of the
\* /upload request that inserted it; the rows of an upload are its stamped
\* splits, inserted together; an upload whose insertion failed ended with 500
\* and inserted nothing; and no step changes or removes a stored row.
C9_ChunkTagging == []C9_StateTagged /\ [][C9_StepKeepsRows]_vars

\* An upload whose rows are stored, and a later request that has completed:
\* an upload whose insertion failed.
C9_Witness ==
    \E r1, r2 \in Uploads :
        /\ r1 < r2
        /\ reqs[r1].pc = "done" /\ reqs[r1].status = 200
        /\ Cardinality({row \in vector_store : row.by = r1}) = 2
        /\ reqs[r2].pc = "done" /\ reqs[r2].detail = "add_documents"

\* user, assistant, user, assistant, ...: each user message directly followed
\* by the assistant message of the same request.
Alternates(h) ==
    /\ Len(h) % 2 = 0
    /\ \A i \in DOMAIN h :
          IF i % 2 = 1
          THEN h[i].type = "human"
          ELSE h[i].type = "ai" /\ h[i].req = h[i - 1].req

\* C10: when no /chat request is in progress, every stored history alternates
\* user, assistant, ..., each user message directly followed by the answer to
\* that query.
C10_HistoryAlternates ==
    (\A r \in Chats : reqs[r].pc = "done") =>
        \A k \in StoredKeys : Alternates(Messages(k))

====
